---- MODULE Spec2Model ----
(***************************************************************************)
(* Model of the BlueMap Cloudflare Worker (src/unnamed/part_001): the      *)
(* fetch handler that serves /maps/* from an R2 bucket, proxies live data  *)
(* to the Minecraft server and exposes two debug endpoints.                *)
(*                                                                         *)
(* Strings are sequences of atoms (indivisible chunks of characters), so   *)
(* that startsWith / endsWith / substring / concatenation are computed on  *)
(* sequences: "maps/world/tiles/x0.prbm" is                                *)
(* <<"maps","/","world","/","tiles","/","x0",".prbm">>.                    *)
(* The handler is cut at its awaits: one action per stretch of code        *)
(* between two awaits.                                                     *)
(***************************************************************************)
EXTENDS Integers, Sequences, FiniteSets, TLC

VARIABLES
    store,      \* env.BUCKET: the set of keys that hold an object
    env,        \* env.LIVE_SERVER_ORIGIN
    pc,         \* where the handler of the current request stands
    req,        \* the current request
    path,       \* local `path` of fetch (decoded, leading slash stripped)
    resp,       \* the Response the handler returned
    outcome,    \* "none" | "response" | "exception"
    reads,      \* keys passed to env.BUCKET.get by this request, in order
    lists,      \* options passed to env.BUCKET.list by this request
    calls,      \* outbound fetch() calls of this request, in order, each
                \* with the request sent, whether it failed, and the answer
    writes      \* what other clients of the bucket did, while this request
                \* was in flight, to the two objects it can read

vars == <<store, env, pc, req, path, resp, outcome, reads, lists, calls, writes>>

-----------------------------------------------------------------------------
(* Bounds *)

\* Largest number of objects in the bucket.
MaxObjects == 2

-----------------------------------------------------------------------------
(* String helpers on atom sequences *)

StartsWith(s, p) == Len(s) >= Len(p) /\ SubSeq(s, 1, Len(p)) = p

EndsWith(s, x) == Len(s) >= Len(x) /\ SubSeq(s, Len(s) - Len(x) + 1, Len(s)) = x

\* s.substring(n)
Substring(s, n) == SubSeq(s, n + 1, Len(s))

\* decodeURIComponent throws URIError on a malformed escape (a lone "%").
DecodeOk(s) == \A i \in 1..Len(s) : s[i] # "%"

\* decodeURIComponent: the escape %2F becomes "/".
DecodeURIComponent(s) == [i \in 1..Len(s) |-> IF s[i] = "%2F" THEN "/" ELSE s[i]]

\* origin.replace(/\/+$/, ""): drop every trailing slash.
RECURSIVE StripTrailingSlashes(_)
StripTrailingSlashes(s) ==
    IF Len(s) > 0 /\ s[Len(s)] = "/"
    THEN StripTrailingSlashes(SubSeq(s, 1, Len(s) - 1))
    ELSE s

\* Mutant: no prefix is required of the paths served from the bucket.
MapsPrefix_None == <<>>

MapsPrefix == <<"maps", "/">>

\* The regular expression /^[^/]+\/<dir>\// tested on s.
MatchesMapDir(s, dir) ==
    \E i \in 2..(Len(s) - 2) :
        /\ \A j \in 1..(i - 1) : s[j] # "/"
        /\ s[i] = "/"
        /\ s[i + 1] = dir
        /\ s[i + 2] = "/"

\* /^maps\/[^/]+\/live\//.test(path)
IsLivePath(p) == StartsWith(p, MapsPrefix) /\ MatchesMapDir(Substring(p, Len(MapsPrefix)), "live")

\* /^[^/]+\/tiles\//.test(r2Key)
IsTile(r2Key) == MatchesMapDir(r2Key, "tiles")

GzSuffix == <<".gz">>

\* Mutant: settings.json left out of the compressed-first test.
IsCompressedOnly_NoSettings(r2Key) ==
    \/ EndsWith(r2Key, <<".prbm">>)
    \/ EndsWith(r2Key, <<"textures", ".json">>)

\* The test that sends a key to the compressed variant first.
IsCompressedOnly(r2Key) ==
    \/ EndsWith(r2Key, <<".prbm">>)
    \/ EndsWith(r2Key, <<"textures", ".json">>)
    \/ EndsWith(r2Key, <<"settings", ".json">>)

\* Mutant: the .png branch is missing.
getMimeType_NoPng(p) ==
    IF EndsWith(p, <<".json">>) \/ EndsWith(p, <<".json", ".gz">>)
    THEN "application/json"
    ELSE "application/octet-stream"

getMimeType(p) ==
    IF EndsWith(p, <<".prbm">>) \/ EndsWith(p, <<".prbm", ".gz">>)
    THEN "application/octet-stream"
    ELSE IF EndsWith(p, <<".png">>)
    THEN "image/png"
    ELSE IF EndsWith(p, <<".json">>) \/ EndsWith(p, <<".json", ".gz">>)
    THEN "application/json"
    ELSE "application/octet-stream"

-----------------------------------------------------------------------------
(* Inputs *)

\* Every key the requests below can make the handler probe, in the
\* lexicographic order in which R2 lists keys.
KeyOrder == <<
    <<"index", ".html">>,
    <<"world", "/", "live", "/", "players", ".json">>,
    <<"world", "/", "live", "/", "players", ".json", ".gz">>,
    <<"world", "/", "settings", ".json">>,
    <<"world", "/", "settings", ".json", ".gz">>,
    <<"world", "/", "textures", ".json">>,
    <<"world", "/", "textures", ".json", ".gz">>,
    <<"world", "/", "tiles", "/", "x0", ".png">>,
    <<"world", "/", "tiles", "/", "x0", ".png", ".gz">>,
    <<"world", "/", "tiles", "/", "x0", ".prbm">>,
    <<"world", "/", "tiles", "/", "x0", ".prbm", ".gz">> >>

Keys == {KeyOrder[i] : i \in 1..Len(KeyOrder)}

\* The R2 object stored under a key.  Its content, hence its ETag (a hash
\* of the content), differs between a file and its gzip-compressed variant.
Object(key) ==
    IF EndsWith(key, GzSuffix)
    THEN [key |-> key, httpEtag |-> "etag-gz", body |-> <<"bytes", "gz">>]
    ELSE [key |-> key, httpEtag |-> "etag-plain", body |-> <<"bytes", "plain">>]

DebugPath == <<"/", "debug">>
DebugLivePath == <<"/", "debug", "/", "live">>

Pathnames == {
    DebugPath,
    DebugLivePath,
    <<"/">>,
    <<"/", "index", ".html">>,
    <<"/", "world", "/", "tiles", "/", "x0", ".prbm">>,
    <<"/", "maps", "/", "world", "/", "tiles", "/", "x0", ".prbm">>,
    <<"/", "maps", "/", "world", "/", "tiles", "/", "x0", ".prbm", ".gz">>,
    <<"/", "maps", "/", "world", "/", "tiles", "/", "x0", ".png">>,
    <<"/", "maps", "/", "world", "/", "textures", ".json">>,
    <<"/", "maps", "/", "world", "/", "textures", ".json", ".gz">>,
    <<"/", "maps", "/", "world", "%2F", "settings", ".json">>,
    <<"/", "maps", "/", "world", "/", "live", "/", "players", ".json">>,
    <<"/", "maps", "/", "%">> }

NoParam == [has |-> FALSE, val |-> <<>>]
Param(v) == [has |-> TRUE, val |-> v]

\* url.searchParams of the requests: only /debug reads them.
Queries(pathname) ==
    IF pathname = DebugPath
    THEN { [prefix |-> p, max |-> m] :
             p \in {NoParam, Param(<<"world", "/", "tiles", "/">>)},
             m \in {NoParam, Param(1)} }
    ELSE { [prefix |-> NoParam, max |-> NoParam] }

Methods == {"GET", "HEAD", "OPTIONS", "POST"}

\* Request header values; NoHeader is headers.get(...) = null.
NoHeader == "<null>"
IfNoneMatchValues == {NoHeader, "etag-gz", "etag-plain"}
AcceptValues == {NoHeader, "application/json"}

Requests ==
    UNION { { [method |-> m, pathname |-> p, query |-> q, ifNoneMatch |-> inm, accept |-> a] :
                m \in Methods, q \in Queries(p),
                inm \in IfNoneMatchValues, a \in AcceptValues } : p \in Pathnames }

\* The request variable's value while no request is being handled.
NoRequest ==
    [method |-> "GET", pathname |-> <<>>, query |-> [prefix |-> NoParam, max |-> NoParam],
     ifNoneMatch |-> NoHeader, accept |-> NoHeader]

Origins == {
    [defined |-> FALSE, value |-> <<>>],
    [defined |-> TRUE, value |-> <<"http://mc:8100">>],
    [defined |-> TRUE, value |-> <<"http://mc:8100", "/">>] }

\* What the live server can answer to a proxied request.
OriginResponses == {
    [status |-> 200, headers |-> ("Content-Type" :> "application/json"),
     body |-> <<"bytes", "players">>],
    [status |-> 404,
     headers |-> ("Cache-Control" :> "no-store") @@
                 ("Access-Control-Allow-Origin" :> "https://map.example"),
     body |-> <<"bytes", "not found">>] }

-----------------------------------------------------------------------------
(* Responses *)

NullBody == <<>>
NoHeaders == [h \in {} |-> ""]
NoResponse == [status |-> 0, headers |-> NoHeaders, body |-> NullBody]

\* Mutant: the live branch taken without looking at the configuration.
Truthy_Unchecked(o) == TRUE

\* !!env.LIVE_SERVER_ORIGIN
Truthy(o) == o.defined /\ o.value # <<>>

\* Mutant: the validator is never honoured.
IfNoneMatchHits_Never(object, request) == FALSE

\* ifNoneMatch && ifNoneMatch === object.httpEtag
IfNoneMatchHits(object, request) ==
    request.ifNoneMatch # NoHeader /\ request.ifNoneMatch = object.httpEtag

r2Response(object, contentType, request) ==
    LET headers == ("Content-Type" :> contentType) @@
                   ("ETag" :> object.httpEtag) @@
                   ("Cache-Control" :> "public, max-age=86400") @@
                   ("Access-Control-Allow-Origin" :> "*")
    IN IF IfNoneMatchHits(object, request)
       THEN [status |-> 304, headers |-> headers, body |-> NullBody]
       ELSE [status |-> 200, headers |-> headers, body |-> object.body]

\* Mutant: the compressed object served like a plain one.
compressedR2Response_NoEncoding(object, contentType, request) ==
    r2Response(object, contentType, request)

compressedR2Response(object, contentType, request) ==
    LET headers == ("Content-Type" :> contentType) @@
                   ("Content-Encoding" :> "gzip") @@
                   ("ETag" :> object.httpEtag) @@
                   ("Cache-Control" :> "public, max-age=86400") @@
                   ("Access-Control-Allow-Origin" :> "*")
    IN IF IfNoneMatchHits(object, request)
       THEN [status |-> 304, headers |-> headers, body |-> NullBody]
       ELSE [status |-> 200, headers |-> headers, body |-> object.body]

emptyResponse(status) ==
    [status |-> status,
     headers |-> ("Access-Control-Allow-Origin" :> "*"),
     body |-> NullBody]

PreflightResponse ==
    [status |-> 200,
     headers |-> ("Access-Control-Allow-Origin" :> "*") @@
                 ("Access-Control-Allow-Methods" :> "GET, HEAD, OPTIONS") @@
                 ("Access-Control-Allow-Headers" :> "*") @@
                 ("Access-Control-Max-Age" :> "86400"),
     body |-> NullBody]

MethodNotAllowedResponse ==
    [status |-> 405, headers |-> NoHeaders, body |-> <<"text", "Method Not Allowed">>]

\* new Response(JSON.stringify(value), {status, headers: {"Content-Type": ...}})
JsonResponse(status, value) ==
    [status |-> status,
     headers |-> ("Content-Type" :> "application/json"),
     body |-> <<"json">> \o value]

\* Mutant: the origin's own headers win over the two the proxy sets.
ProxiedResponse_OriginWins(proxyResponse) ==
    [status |-> proxyResponse.status,
     headers |-> proxyResponse.headers @@
                 ("Access-Control-Allow-Origin" :> "*") @@
                 ("Cache-Control" :> "public, max-age=5"),
     body |-> proxyResponse.body]

\* The live proxy's answer, built from the origin's response.
ProxiedResponse(proxyResponse) ==
    [status |-> proxyResponse.status,
     headers |-> ("Access-Control-Allow-Origin" :> "*") @@
                 ("Cache-Control" :> "public, max-age=5") @@
                 proxyResponse.headers,
     body |-> proxyResponse.body]

\* The request the live proxy sends to the origin.
ProxyRequest(origin, p, request) ==
    [url |-> StripTrailingSlashes(origin) \o <<"/">> \o p,
     method |-> request.method,
     headers |-> ("Accept" :> (IF request.accept = NoHeader THEN "*/*" ELSE request.accept)) @@
                 ("User-Agent" :> "bluemap-cloudflare-worker")]

\* The request /debug/live sends to the origin.
DebugLiveRequest(origin) ==
    [url |-> StripTrailingSlashes(origin) \o
             <<"/", "maps", "/", "world", "/", "live", "/", "players", ".json">>,
     method |-> "GET",
     headers |-> ("Accept" :> "*/*") @@ ("User-Agent" :> "bluemap-cloudflare-worker")]

\* Mutant: the 502 built without the CORS header.
ProxyErrorResponse_NoCors ==
    [status |-> 502, headers |-> NoHeaders, body |-> <<"text", "Live server unavailable">>]

\* The catch block of the live proxy.
ProxyErrorResponse == emptyResponse(502)

\* An entry of the log of outbound calls.
Call(request, failed, response) ==
    [request |-> request, failed |-> failed, response |-> response]

-----------------------------------------------------------------------------
(* The bucket *)

\* env.BUCKET.get(key): the object, or null.
Present(key) == key \in store

DefaultMax == 50

\* env.BUCKET.list({prefix, limit}): the first `limit` keys with the prefix,
\* in key order, and whether more remain.
Listed(prefix, limit) ==
    LET match == SelectSeq(KeyOrder,
                     LAMBDA k : k \in store /\ (~prefix.has \/ StartsWith(k, prefix.val)))
    IN [objects |-> SubSeq(match, 1, IF Len(match) < limit THEN Len(match) ELSE limit),
        truncated |-> Len(match) > limit]

-----------------------------------------------------------------------------
(* The handler *)

\* No other client has touched the bucket since the request began.
NoWrites == [key |-> "never", gz |-> "never", gap |-> FALSE]

Return(r) == pc' = "done" /\ resp' = r /\ outcome' = "response"

Throw == pc' = "done" /\ resp' = NoResponse /\ outcome' = "exception"

Goto(label) == pc' = label /\ resp' = NoResponse /\ outcome' = "none"

r2Key == Substring(path, Len(MapsPrefix))

contentType == getMimeType(r2Key)

\* fetch, up to its first await or return.
Begin(request) ==
    /\ pc = "idle"
    /\ req' = request
    /\ reads' = <<>>
    /\ lists' = <<>>
    /\ calls' = <<>>
    /\ writes' = NoWrites
    /\ UNCHANGED <<store, env>>
    /\ IF request.pathname = DebugLivePath
       THEN /\ path' = <<>>
            /\ IF ~Truthy(env)
               THEN Return(JsonResponse(500, <<"LIVE_SERVER_ORIGIN is not set">>))
               ELSE Goto("debugLiveFetch")
       ELSE IF request.pathname = DebugPath
       THEN path' = <<>> /\ Goto("debugList")
       ELSE IF request.method = "OPTIONS"
       THEN path' = <<>> /\ Return(PreflightResponse)
       ELSE IF request.method # "GET" /\ request.method # "HEAD"
       THEN path' = <<>> /\ Return(MethodNotAllowedResponse)
       ELSE IF ~DecodeOk(request.pathname)
       THEN path' = <<>> /\ Throw
       ELSE LET decoded == DecodeURIComponent(request.pathname)
                p == IF StartsWith(decoded, <<"/">>) THEN Substring(decoded, 1) ELSE decoded
            IN /\ path' = p
               /\ IF ~StartsWith(p, MapsPrefix)
                  THEN Return(emptyResponse(404))
                  ELSE IF Truthy(env) /\ IsLivePath(p)
                  THEN Goto("liveFetch")
                  ELSE IF IsCompressedOnly(Substring(p, Len(MapsPrefix)))
                  THEN Goto("getGzFirst")
                  ELSE Goto("getExact")

\* /debug/live: the test call to the origin answers.
DebugLiveAnswered ==
    /\ pc = "debugLiveFetch"
    /\ \E res \in OriginResponses :
          /\ calls' = Append(calls, Call(DebugLiveRequest(env.value), FALSE, res))
          /\ Return(JsonResponse(200, <<res.status, res.body>>))
    /\ UNCHANGED <<store, env, req, path, reads, lists, writes>>

\* /debug/live: the test call to the origin fails.
DebugLiveFailed ==
    /\ pc = "debugLiveFetch"
    /\ calls' = Append(calls, Call(DebugLiveRequest(env.value), TRUE, NoResponse))
    /\ Return(JsonResponse(502, <<"fetch failed">>))
    /\ UNCHANGED <<store, env, req, path, reads, lists, writes>>

\* Mutant: the listing removes what it lists.
DebugList_Consumes ==
    /\ pc = "debugList"
    /\ LET prefix == req.query.prefix
           max == IF req.query.max.has THEN req.query.max.val ELSE DefaultMax
           listed == Listed(prefix, max)
       IN /\ lists' = Append(lists, [prefix |-> prefix, limit |-> max])
          /\ store' = store \ {listed.objects[i] : i \in 1..Len(listed.objects)}
          /\ Return(JsonResponse(200,
                 <<listed.truncated, Len(listed.objects), listed.objects>>))
    /\ UNCHANGED <<env, req, path, reads, calls, writes>>

\* /debug: list the bucket.
DebugList ==
    /\ pc = "debugList"
    /\ LET prefix == req.query.prefix
           max == IF req.query.max.has THEN req.query.max.val ELSE DefaultMax
           listed == Listed(prefix, max)
       IN /\ lists' = Append(lists, [prefix |-> prefix, limit |-> max])
          /\ Return(JsonResponse(200,
                 <<listed.truncated, Len(listed.objects), listed.objects>>))
    /\ UNCHANGED <<store, env, req, path, reads, calls, writes>>

\* The live proxy: the origin answers.
LiveAnswered ==
    /\ pc = "liveFetch"
    /\ \E proxyResponse \in OriginResponses :
          /\ calls' = Append(calls, Call(ProxyRequest(env.value, path, req), FALSE, proxyResponse))
          /\ Return(ProxiedResponse(proxyResponse))
    /\ UNCHANGED <<store, env, req, path, reads, lists, writes>>

\* The live proxy: the outbound call fails (the catch block).
LiveFailed ==
    /\ pc = "liveFetch"
    /\ calls' = Append(calls, Call(ProxyRequest(env.value, path, req), TRUE, NoResponse))
    /\ Return(ProxyErrorResponse)
    /\ UNCHANGED <<store, env, req, path, reads, lists, writes>>

\* Mutant: every miss is a 404.
MissResponse_Always404 == emptyResponse(404)

\* Mutant: every miss is a 204.
MissResponse_Always204 == emptyResponse(204)

\* What follows the last miss: 204 for a tile, 404 otherwise.
MissResponse == IF IsTile(r2Key) THEN emptyResponse(204) ELSE emptyResponse(404)

\* Compressed-only keys: env.BUCKET.get(r2Key + ".gz") first.
GetGzFirst ==
    /\ pc = "getGzFirst"
    /\ reads' = Append(reads, r2Key \o GzSuffix)
    /\ IF Present(r2Key \o GzSuffix)
       THEN Return(compressedR2Response(Object(r2Key \o GzSuffix), contentType, req))
       ELSE Goto("getExact")
    /\ UNCHANGED <<store, env, req, path, lists, calls, writes>>

\* Mutant: the .gz catch-all is tried whatever the key ends in.
GetExact_AlwaysTriesGz ==
    /\ pc = "getExact"
    /\ reads' = Append(reads, r2Key)
    /\ IF Present(r2Key)
       THEN Return(r2Response(Object(r2Key), contentType, req))
       ELSE Goto("getGzFallback")
    /\ UNCHANGED <<store, env, req, path, lists, calls, writes>>

\* Mutant: a key whose .gz was tried first is a miss once the exact key
\* misses; its .gz is not tried again.
GetExact_GzTriedOnce ==
    /\ pc = "getExact"
    /\ reads' = Append(reads, r2Key)
    /\ IF Present(r2Key)
       THEN Return(r2Response(Object(r2Key), contentType, req))
       ELSE IF ~EndsWith(r2Key, GzSuffix) /\ ~IsCompressedOnly(r2Key)
       THEN Goto("getGzFallback")
       ELSE Return(MissResponse)
    /\ UNCHANGED <<store, env, req, path, lists, calls, writes>>

\* env.BUCKET.get(r2Key)
GetExact ==
    /\ pc = "getExact"
    /\ reads' = Append(reads, r2Key)
    /\ IF Present(r2Key)
       THEN Return(r2Response(Object(r2Key), contentType, req))
       ELSE IF ~EndsWith(r2Key, GzSuffix)
       THEN Goto("getGzFallback")
       ELSE Return(MissResponse)
    /\ UNCHANGED <<store, env, req, path, lists, calls, writes>>

\* The catch-all: env.BUCKET.get(r2Key + ".gz") after the exact key missed.
GetGzFallback ==
    /\ pc = "getGzFallback"
    /\ reads' = Append(reads, r2Key \o GzSuffix)
    /\ IF Present(r2Key \o GzSuffix)
       THEN Return(compressedR2Response(Object(r2Key \o GzSuffix), contentType, req))
       ELSE Return(MissResponse)
    /\ UNCHANGED <<store, env, req, path, lists, calls, writes>>

\* Mutant: a rejected bucket call is caught and taken for a miss.
StoreFailed_TakenForMiss ==
    /\ pc \in {"getGzFirst", "getExact", "getGzFallback", "debugList"}
    /\ IF pc = "debugList"
       THEN /\ lists' = Append(lists, [prefix |-> req.query.prefix,
                   limit |-> IF req.query.max.has THEN req.query.max.val ELSE DefaultMax])
            /\ reads' = reads
            /\ Return(JsonResponse(200, <<FALSE, 0, <<>> >>))
       ELSE /\ reads' = Append(reads, IF pc = "getExact" THEN r2Key ELSE r2Key \o GzSuffix)
            /\ lists' = lists
            /\ IF pc = "getGzFirst"
               THEN Goto("getExact")
               ELSE IF pc = "getExact" /\ ~EndsWith(r2Key, GzSuffix)
               THEN Goto("getGzFallback")
               ELSE Return(MissResponse)
    /\ UNCHANGED <<store, env, req, path, calls, writes>>

\* An awaited bucket call rejects (R2 is unavailable): fetch has no try
\* around it, so the handler's promise rejects and no Response is returned.
StoreFailed ==
    /\ pc \in {"getGzFirst", "getExact", "getGzFallback", "debugList"}
    /\ IF pc = "debugList"
       THEN /\ lists' = Append(lists, [prefix |-> req.query.prefix,
                   limit |-> IF req.query.max.has THEN req.query.max.val ELSE DefaultMax])
            /\ reads' = reads
       ELSE /\ reads' = Append(reads, IF pc = "getExact" THEN r2Key ELSE r2Key \o GzSuffix)
            /\ lists' = lists
    /\ Throw
    /\ UNCHANGED <<store, env, req, path, calls, writes>>

\* The runtime takes the handler's result (the Response, or the rejection);
\* the worker is ready for the next request.  Nothing of the request is kept.
Deliver ==
    /\ pc = "done"
    /\ pc' = "idle"
    /\ req' = NoRequest
    /\ path' = <<>>
    /\ resp' = NoResponse
    /\ outcome' = "none"
    /\ reads' = <<>>
    /\ lists' = <<>>
    /\ calls' = <<>>
    /\ writes' = NoWrites
    /\ UNCHANGED <<store, env>>

-----------------------------------------------------------------------------
(* Specification *)

Stores == {s \in SUBSET Keys : Cardinality(s) <= MaxObjects}

Init ==
    /\ store \in Stores
    /\ env \in Origins
    /\ pc = "idle"
    /\ req = NoRequest
    /\ path = <<>>
    /\ resp = NoResponse
    /\ outcome = "none"
    /\ reads = <<>>
    /\ lists = <<>>
    /\ calls = <<>>
    /\ writes = NoWrites

Next ==
    \/ \E request \in Requests : Begin(request)
    \/ DebugLiveAnswered
    \/ DebugLiveFailed
    \/ DebugList
    \/ LiveAnswered
    \/ LiveFailed
    \/ GetGzFirst
    \/ GetExact
    \/ GetGzFallback
    \/ StoreFailed
    \/ Deliver

Spec == Init /\ [][Next]_vars

-----------------------------------------------------------------------------
(* The bucket's writers: the upload script and rclone sync, which run while
   the worker serves.  The handler awaits between its bucket reads, so a
   writer can act before each of them.  Only the two keys the request in
   flight can read are followed; an object's content is fixed by its key,
   so an overwrite changes nothing and is left out. *)

Probing == pc \in {"getGzFirst", "getExact", "getGzFallback"}

WriterKeys == {r2Key, r2Key \o GzSuffix} \cap Keys

\* One more change of an object: never, once, more than once.
Counted(c) == IF c = "never" THEN "once" ELSE "more"

\* The record of a change of `key` that turns the bucket into `after`: how
\* often each of the two objects has appeared or disappeared, and whether
\* there was an instant with neither of them in the bucket.
Written(key, after) ==
    [key |-> IF key = r2Key THEN Counted(writes.key) ELSE writes.key,
     gz  |-> IF key = r2Key THEN writes.gz ELSE Counted(writes.gz),
     gap |-> \/ writes.gap
             \/ WriterKeys \cap store = {}
             \/ WriterKeys \cap after = {}]

\* wrangler r2 object put <bucket>/<key>
WriterPut ==
    /\ Probing
    /\ Cardinality(store) < MaxObjects
    /\ \E key \in WriterKeys \ store :
          /\ store' = store \cup {key}
          /\ writes' = Written(key, store \cup {key})
    /\ UNCHANGED <<env, pc, req, path, resp, outcome, reads, lists, calls>>

\* rclone sync: an object whose file is gone is deleted from the bucket.
WriterDelete ==
    /\ Probing
    /\ \E key \in WriterKeys \cap store :
          /\ store' = store \ {key}
          /\ writes' = Written(key, store \ {key})
    /\ UNCHANGED <<env, pc, req, path, resp, outcome, reads, lists, calls>>

NextWriter ==
    \/ Next
    \/ WriterPut
    \/ WriterDelete

\* A deployment with the live server configured (wrangler.toml [vars]).
InitWriter == Init /\ env = [defined |-> TRUE, value |-> <<"http://mc:8100">>]

SpecWriter == InitWriter /\ [][NextWriter]_vars

-----------------------------------------------------------------------------
(* Vocabulary of the properties, computed from the request alone *)

\* The handler returned a Response for the current request.
Responded == pc = "done" /\ outcome = "response"

ReadMethod == req.method \in {"GET", "HEAD"}

HasHeader(h) == h \in DOMAIN resp.headers

HeaderIs(h, v) == HasHeader(h) /\ resp.headers[h] = v

DebugEndpoint == req.pathname \in {DebugPath, DebugLivePath}

\* The request path, percent-decoded once, without its leading slash.
ReqPath ==
    LET d == DecodeURIComponent(req.pathname)
    IN IF Len(d) > 0 /\ d[1] = "/" THEN SubSeq(d, 2, Len(d)) ELSE d

UnderMaps == Len(ReqPath) >= 2 /\ ReqPath[1] = "maps" /\ ReqPath[2] = "/"

\* The store key of a path under maps/.
ReqKey == SubSeq(ReqPath, 3, Len(ReqPath))

ReqKeyGz == ReqKey \o <<".gz">>

LastAtom(s) == IF Len(s) = 0 THEN "" ELSE s[Len(s)]

\* <map-id>/<dir>/... : one segment, then the directory.
InMapDir(key, dir) ==
    \E i \in 2..(Len(key) - 2) :
        /\ \A j \in 1..(i - 1) : key[j] # "/"
        /\ key[i] = "/" /\ key[i + 1] = dir /\ key[i + 2] = "/"

\* A GET or HEAD the handler decodes, other than the two debug endpoints.
Resolvable == ReadMethod /\ ~DebugEndpoint /\ DecodeOk(req.pathname) /\ pc # "idle"

TileRequest == Resolvable /\ UnderMaps /\ InMapDir(ReqKey, "tiles")

LiveRequest == Resolvable /\ UnderMaps /\ InMapDir(ReqKey, "live")

OriginConfigured == env.defined /\ env.value # <<>>

Proxied == LiveRequest /\ OriginConfigured

\* A request resolved against the bucket.
StoreRequest == Resolvable /\ UnderMaps /\ ~Proxied

\* Keys ending in .prbm, textures.json or settings.json.
CompressedOnlyKey(key) ==
    \/ LastAtom(key) = ".prbm"
    \/ (Len(key) >= 2 /\ key[Len(key)] = ".json"
        /\ key[Len(key) - 1] \in {"textures", "settings"})

\* Exactly the headers of a miss: CORS and nothing else.
BareCors == DOMAIN resp.headers = {"Access-Control-Allow-Origin"}
            /\ resp.headers["Access-Control-Allow-Origin"] = "*"

-----------------------------------------------------------------------------
(* C1 *)

\* C1: a GET or HEAD for a tile path /maps/<map-id>/tiles/... whose key and
\* key+".gz" are both absent from the store is answered 204 with an empty
\* body, no Content-Encoding and no Cache-Control.  (The key is the path
\* without its maps/ prefix; a path without the prefix is not a tile path.)
C1_MissingTileIs204 ==
    (Responded /\ TileRequest /\ ReqKey \notin store /\ ReqKeyGz \notin store)
        => /\ resp.status = 204
           /\ resp.body = NullBody
           /\ ~HasHeader("Content-Encoding")
           /\ ~HasHeader("Cache-Control")

C1_Witness ==
    /\ Responded /\ TileRequest /\ ReqKey \notin store /\ ReqKeyGz \notin store
    /\ CompressedOnlyKey(ReqKey)
    /\ Len(reads) >= 2
    /\ resp.status = 204

-----------------------------------------------------------------------------
(* C2 *)

-----------------------------------------------------------------------------
(* C3 *)

\* C3: candidates are probed in priority order and probing stops at the
\* first hit.  For a compressed-only key the first read is key+".gz" and,
\* when both exist, the .gz object is served with Content-Encoding: gzip;
\* for any other key the first read is the exact key and, when both exist,
\* the plain object is served without Content-Encoding; no read is issued
\* after a read that returned an object.
C3_PriorityOrderStopsAtFirstHit ==
    StoreRequest =>
        /\ Len(reads) >= 1 =>
              reads[1] = (IF CompressedOnlyKey(ReqKey) THEN ReqKeyGz ELSE ReqKey)
        /\ \A i \in 1..(Len(reads) - 1) : reads[i] \notin store
        /\ (Responded /\ ReqKey \in store /\ ReqKeyGz \in store) =>
              IF CompressedOnlyKey(ReqKey)
              THEN /\ HeaderIs("Content-Encoding", "gzip")
                   /\ HeaderIs("ETag", Object(ReqKeyGz).httpEtag)
                   /\ reads = <<ReqKeyGz>>
              ELSE /\ ~HasHeader("Content-Encoding")
                   /\ HeaderIs("ETag", Object(ReqKey).httpEtag)
                   /\ reads = <<ReqKey>>

C3_Witness ==
    /\ Responded /\ StoreRequest
    /\ ReqKey \in store /\ ReqKeyGz \in store
    /\ CompressedOnlyKey(ReqKey)
    /\ reads = <<ReqKeyGz>>
    /\ HeaderIs("Content-Encoding", "gzip")

-----------------------------------------------------------------------------
(* C4 *)

\* The keys the request's path stands for: the path without the maps/
\* prefix when it has one, and that key with ".gz" appended.
CandidatesAbsent ==
    LET key == IF UnderMaps THEN ReqKey ELSE ReqPath
    IN key \notin store /\ (key \o <<".gz">>) \notin store

\* C4: a GET or HEAD for a path that is not a tile path and is not proxied
\* to the live origin, none of whose candidate keys is stored, is answered
\* 404 with no body and with Access-Control-Allow-Origin: *.  (Paths with
\* candidate keys: every path but the two debug endpoints, which are not
\* resolved against keys.)
C4_MissingNonTileIs404 ==
    (Responded /\ Resolvable /\ ~TileRequest /\ ~Proxied /\ CandidatesAbsent)
        => /\ resp.status = 404
           /\ resp.body = NullBody
           /\ HeaderIs("Access-Control-Allow-Origin", "*")

C4_Witness ==
    /\ Responded /\ StoreRequest /\ ~TileRequest /\ CandidatesAbsent
    /\ Len(reads) >= 2
    /\ resp.status = 404

-----------------------------------------------------------------------------
(* C5 *)

\* The object the response was built from: the last key read, when stored.
Served == reads[Len(reads)]

Found == Responded /\ StoreRequest /\ Len(reads) >= 1 /\ Served \in store

\* C5: when a candidate object is found, a request whose If-None-Match
\* equals the object's ETag gets 304 with no body, any other request gets
\* 200, and both carry the same header set: Content-Type, ETag,
\* Cache-Control, CORS, and Content-Encoding: gzip exactly when the
\* compressed candidate was used.
C5_ConditionalGet ==
    Found =>
        /\ IF req.ifNoneMatch = Object(Served).httpEtag
           THEN resp.status = 304 /\ resp.body = NullBody
           ELSE resp.status = 200 /\ resp.body = Object(Served).body
        /\ DOMAIN resp.headers =
              {"Content-Type", "ETag", "Cache-Control", "Access-Control-Allow-Origin"}
              \cup (IF Served = ReqKeyGz THEN {"Content-Encoding"} ELSE {})
        /\ resp.headers["ETag"] = Object(Served).httpEtag
        /\ resp.headers["Cache-Control"] = "public, max-age=86400"
        /\ resp.headers["Access-Control-Allow-Origin"] = "*"
        /\ Served = ReqKeyGz => resp.headers["Content-Encoding"] = "gzip"

C5_Witness ==
    /\ Found
    /\ Served = ReqKeyGz
    /\ req.ifNoneMatch = Object(Served).httpEtag
    /\ resp.status = 304
    /\ HeaderIs("Content-Encoding", "gzip")

-----------------------------------------------------------------------------
(* C6 *)

\* C6 as stated: a GET or HEAD for a live path with no origin configured is
\* answered 404 whatever the store holds, and makes no outbound call.
C6_LiveUnconfiguredAlways404 ==
    (LiveRequest /\ ~OriginConfigured)
        => /\ calls = <<>>
           /\ Responded => resp.status = 404

\* C6 amended: a GET or HEAD for a live path with no origin configured
\* makes no outbound call and is resolved against the store like any
\* non-tile path: 404 when neither key nor key+".gz" is stored, the stored
\* object (200 or 304) otherwise.
C6_LiveUnconfiguredFallsBackToStore ==
    (LiveRequest /\ ~OriginConfigured)
        => /\ calls = <<>>
           /\ Responded =>
                 IF ReqKey \notin store /\ ReqKeyGz \notin store
                 THEN resp.status = 404 /\ resp.body = NullBody
                 ELSE resp.status \in {200, 304} /\ HasHeader("ETag")

C6_Witness ==
    /\ Responded /\ LiveRequest /\ ~OriginConfigured
    /\ ReqKey \notin store /\ ReqKeyGz \notin store
    /\ reads = <<ReqKey, ReqKeyGz>>
    /\ resp.status = 404

-----------------------------------------------------------------------------
(* C7 *)

\* C7: for a live path with an origin configured the outbound call is made
\* once and the store is not read; if the call fails, the answer is 502
\* with Access-Control-Allow-Origin: *.
C7_OriginFailureIs502 ==
    Proxied =>
        /\ Len(calls) <= 1
        /\ reads = <<>> /\ lists = <<>>
        /\ Responded =>
              /\ Len(calls) = 1
              /\ calls[1].failed =>
                    /\ resp.status = 502
                    /\ HeaderIs("Access-Control-Allow-Origin", "*")

C7_Witness ==
    /\ Responded /\ Proxied
    /\ Len(calls) = 1 /\ calls[1].failed
    /\ resp.status = 502

-----------------------------------------------------------------------------
(* C8 *)

\* C8: for a live path with an origin configured and reachable, the answer
\* has the origin's status and body, Cache-Control: public, max-age=5 and
\* Access-Control-Allow-Origin: * whatever the origin sent, and the origin's
\* other headers; the request sent to the origin has the same method, the
\* path with its maps/ prefix, and only the Accept and User-Agent headers.
C8_LiveRelay ==
    (Responded /\ Proxied /\ Len(calls) >= 1 /\ ~calls[1].failed) =>
        LET sent == calls[1].request
            got == calls[1].response
        IN /\ resp.status = got.status
           /\ resp.body = got.body
           /\ HeaderIs("Cache-Control", "public, max-age=5")
           /\ HeaderIs("Access-Control-Allow-Origin", "*")
           /\ \A h \in DOMAIN got.headers \ {"Cache-Control", "Access-Control-Allow-Origin"} :
                 HeaderIs(h, got.headers[h])
           /\ sent.method = req.method
           /\ sent.url = <<"http://mc:8100", "/">> \o ReqPath
           /\ DOMAIN sent.headers = {"Accept", "User-Agent"}
           /\ sent.headers["User-Agent"] = "bluemap-cloudflare-worker"
           /\ sent.headers["Accept"] =
                 (IF req.accept = NoHeader THEN "*/*" ELSE req.accept)

C8_Witness ==
    /\ Responded /\ Proxied /\ Len(calls) = 1 /\ ~calls[1].failed
    /\ "Cache-Control" \in DOMAIN calls[1].response.headers
    /\ calls[1].response.headers["Cache-Control"] = "no-store"
    /\ calls[1].response.headers["Access-Control-Allow-Origin"] # "*"
    /\ env.value = <<"http://mc:8100", "/">>
    /\ req.method = "HEAD"
    /\ resp.status = 404
    /\ HeaderIs("Cache-Control", "public, max-age=5")

-----------------------------------------------------------------------------
(* C9 *)

\* C9: every response the handler produces carries
\* Access-Control-Allow-Origin: *.
C9_EveryResponseHasCors ==
    Responded => HeaderIs("Access-Control-Allow-Origin", "*")

-----------------------------------------------------------------------------
(* C10 *)

\* C10: a request whose method is neither GET, HEAD nor OPTIONS is answered
\* 405 on every path, and no store read, store list or outbound call is
\* made for it.
C10_OtherMethodsAre405 ==
    (pc # "idle" /\ req.method \notin {"GET", "HEAD", "OPTIONS"})
        => /\ reads = <<>> /\ lists = <<>> /\ calls = <<>>
           /\ Responded => resp.status = 405

-----------------------------------------------------------------------------
(* C11 *)

\* C11: an OPTIONS request to any path is answered with the fixed
\* capability response (success status, Access-Control-Allow-Methods,
\* Access-Control-Allow-Headers, Access-Control-Max-Age), and no store get,
\* store list or origin call is made for it.
C11_OptionsIsPreflight ==
    (pc # "idle" /\ req.method = "OPTIONS")
        => /\ reads = <<>> /\ lists = <<>> /\ calls = <<>>
           /\ Responded =>
                 /\ resp.status \in {200, 204}
                 /\ HasHeader("Access-Control-Allow-Methods")
                 /\ HasHeader("Access-Control-Allow-Headers")
                 /\ HasHeader("Access-Control-Max-Age")

-----------------------------------------------------------------------------
(* C12 *)

\* C12: a GET or HEAD resolved against the store whose key does not end in
\* .gz probes exactly the candidates key and key+".gz": at most two store
\* reads, and never the same key twice.
C12_AtMostTwoReads ==
    (StoreRequest /\ LastAtom(ReqKey) # ".gz")
        => /\ Len(reads) <= 2
           /\ \A i, j \in 1..Len(reads) : i # j => reads[i] # reads[j]
           /\ \A i \in 1..Len(reads) : reads[i] \in {ReqKey, ReqKeyGz}

-----------------------------------------------------------------------------
(* C13 *)

\* C13: for a key that already ends in ".gz" the handler reads the exact
\* key only, once, and never key+".gz"; a hit is served as a plain
\* candidate (no Content-Encoding), a miss is 204 for a tile and 404
\* otherwise.
C13_GzKeyReadOnce ==
    (StoreRequest /\ LastAtom(ReqKey) = ".gz")
        => /\ Len(reads) <= 1
           /\ \A i \in 1..Len(reads) : reads[i] = ReqKey
           /\ Responded =>
                 /\ reads = <<ReqKey>>
                 /\ ~HasHeader("Content-Encoding")
                 /\ IF ReqKey \in store
                    THEN resp.status \in {200, 304}
                         /\ HeaderIs("ETag", Object(ReqKey).httpEtag)
                    ELSE resp.status = (IF TileRequest THEN 204 ELSE 404)

C13_Witness ==
    /\ Responded /\ StoreRequest /\ LastAtom(ReqKey) = ".gz"
    /\ ~TileRequest
    /\ ReqKey \notin store
    /\ reads = <<ReqKey>>
    /\ resp.status = 404

-----------------------------------------------------------------------------
(* C14 *)

\* The generic entry document.
IndexKey == <<"index", ".html">>

\* A GET for a path outside maps/ (the root included), the debug endpoints
\* aside.
GenericGet ==
    /\ pc # "idle" /\ req.method = "GET" /\ ~DebugEndpoint
    /\ DecodeOk(req.pathname) /\ ~UnderMaps

-----------------------------------------------------------------------------
(* C15 *)

-----------------------------------------------------------------------------
(* C16 *)

\* The candidates of a key, in priority order.
Candidates(key) ==
    IF CompressedOnlyKey(key) THEN <<key \o <<".gz">>, key>>
    ELSE IF LastAtom(key) = ".gz" THEN <<key>>
    ELSE <<key, key \o <<".gz">> >>

\* The content type of a key's logical extension.
LogicalType(key) ==
    LET base == IF LastAtom(key) = ".gz" THEN SubSeq(key, 1, Len(key) - 1) ELSE key
    IN IF LastAtom(base) = ".png" THEN "image/png"
       ELSE IF LastAtom(base) = ".json" THEN "application/json"
       ELSE "application/octet-stream"

\* Status and headers as a function of a request and of the store's
\* contents, and of nothing else.
Expected(request, contents) ==
    LET d == DecodeURIComponent(request.pathname)
        key == SubSeq(d, 4, Len(d))
        hits == SelectSeq(Candidates(key), LAMBDA k : k \in contents)
        cors == "Access-Control-Allow-Origin" :> "*"
    IN IF hits = <<>>
       THEN [status |-> IF InMapDir(key, "tiles") THEN 204 ELSE 404, headers |-> cors]
       ELSE [status |-> IF request.ifNoneMatch = Object(hits[1]).httpEtag THEN 304 ELSE 200,
             headers |-> cors @@
                         ("Content-Type" :> LogicalType(key)) @@
                         ("ETag" :> Object(hits[1]).httpEtag) @@
                         ("Cache-Control" :> "public, max-age=86400") @@
                         (IF hits[1] = key THEN NoHeaders
                          ELSE "Content-Encoding" :> "gzip")]

-----------------------------------------------------------------------------
(* C17 *)

\* C17: every GET or HEAD request that has ended has ended with a response
\* outcome (found, soft-absent, hard-absent, proxy error or relayed), never
\* with none.
C17_EndsWithOneOutcome ==
    (pc = "done" /\ ReadMethod) => outcome = "response"

-----------------------------------------------------------------------------
(* C18 *)

\* C18: no step of the handler, for any method or path, changes the store
\* (or the configuration): the set of stored keys is the same after the
\* step as before, the /debug listing included.
C18_StoreNeverChanged == [][store' = store /\ env' = env]_vars

C18_Witness ==
    /\ Responded
    /\ req.pathname = DebugPath
    /\ Len(lists) = 1
    /\ Cardinality(store) = 2
    /\ resp.status = 200

-----------------------------------------------------------------------------
(* C19 *)

\* At every instant of the request the key or its .gz was in the bucket.
OneVariantAlways == ~writes.gap /\ {ReqKey, ReqKeyGz} \cap store # {}

\* C19 as stated: a GET or HEAD for a compressed-only key, during which
\* writers add and remove objects but at every instant the key or its .gz
\* is in the bucket, is answered with an object (200 or 304), never with a
\* miss.
C19_OneVariantAlwaysIsServed ==
    (Responded /\ StoreRequest /\ CompressedOnlyKey(ReqKey) /\ OneVariantAlways)
        => resp.status \in {200, 304}

\* C19, amended: the same, provided at least one of the two objects, the
\* key's or its .gz's, appears or disappears at most once during the
\* request.  (The handler reads .gz, the key, then .gz again; all three
\* miss only if both objects change twice.)
C19_OneVariantAlwaysAndOneSwapIsServed ==
    (/\ Responded /\ StoreRequest /\ CompressedOnlyKey(ReqKey)
     /\ OneVariantAlways
     /\ (writes.key # "more" \/ writes.gz # "more"))
        => resp.status \in {200, 304}

C19_Witness ==
    /\ Responded /\ StoreRequest /\ CompressedOnlyKey(ReqKey)
    /\ OneVariantAlways
    /\ writes.key = "once" /\ writes.gz = "once"
    /\ reads = <<ReqKeyGz, ReqKey, ReqKeyGz>>
    /\ resp.status = 200
    /\ HeaderIs("Content-Encoding", "gzip")

====
